---- MODULE Spec2Model ----
(***************************************************************************)
(* deepsign.py: recursive code signing of a bundle.                        *)
(*                                                                         *)
(* The filesystem is a finite tree of directories, files and symbolic      *)
(* links.  A file name is the sequence of its dot-separated pieces         *)
(* ("A.app" is <<"A", "app">>, "1.0" is <<"1", "0">>, "." is <<"", "">>),  *)
(* a path is a sequence of names.  The program is a stack of call frames;  *)
(* the Signer (the codesign subprocess) answers success or failure.        *)
(***************************************************************************)
EXTENDS Integers, Sequences, FiniteSets, TLC

VARIABLES tree, root, pc, stack, log, status, signed, exitCode, outcome, calls, run, prevLog

vars == <<tree, root, pc, stack, log, status, signed, exitCode, outcome, calls, run, prevLog>>

(***************************************************************************)
(* Bounds                                                                  *)
(***************************************************************************)
\* symbolic links one path resolution may follow before the system refuses
\* the path (ELOOP); os.path.exists / isdir / access then answer False
MaxSymlinks == 2
\* number of times the tool is run on the same tree
MaxRuns == 2

(***************************************************************************)
(* File names and the filesystem                                           *)
(***************************************************************************)
Nm(s) == <<s>>
NmE(s, e) == <<s, e>>

Dir(kids) == [kind |-> "dir", kids |-> kids, target |-> <<>>]
XFile == [kind |-> "xfile", kids |-> <<>>, target |-> <<>>]
PlainFile == [kind |-> "file", kids |-> <<>>, target |-> <<>>]
Link(t) == [kind |-> "link", kids |-> <<>>, target |-> t]
NoNode == [kind |-> "none", kids |-> <<>>, target |-> <<>>]
E(n, x) == [name |-> n, node |-> x]

CURRENT_DIRECTORY_PATH == <<NmE("", "")>>

\* variant: the main executable directory and the directory itself first
VALID_SIGNING_PATHS_RootFirst ==
    << CURRENT_DIRECTORY_PATH, <<Nm("MacOS")>>,
       <<Nm("Frameworks")>>, <<Nm("PlugIns")>>, <<Nm("XPCServices")>>, <<Nm("Helpers")>>,
       <<Nm("Library"), Nm("QuickLook")>>, <<Nm("Library"), Nm("Automator")>>,
       <<Nm("Library"), Nm("Spotlight")>>, <<Nm("Library"), Nm("LoginItems")>>,
       <<Nm("Library"), Nm("LaunchServices")>> >>

\* variant: Resources added to the table
VALID_SIGNING_PATHS_WithResources ==
    << <<Nm("Frameworks")>>, <<Nm("PlugIns")>>, <<Nm("XPCServices")>>, <<Nm("Helpers")>>,
       <<Nm("Library"), Nm("QuickLook")>>, <<Nm("Library"), Nm("Automator")>>,
       <<Nm("Library"), Nm("Spotlight")>>, <<Nm("Library"), Nm("LoginItems")>>,
       <<Nm("Library"), Nm("LaunchServices")>>, <<Nm("Resources")>>, <<Nm("MacOS")>>,
       CURRENT_DIRECTORY_PATH >>

VALID_SIGNING_PATHS ==
    << <<Nm("Frameworks")>>, <<Nm("PlugIns")>>, <<Nm("XPCServices")>>, <<Nm("Helpers")>>,
       <<Nm("Library"), Nm("QuickLook")>>, <<Nm("Library"), Nm("Automator")>>,
       <<Nm("Library"), Nm("Spotlight")>>, <<Nm("Library"), Nm("LoginItems")>>,
       <<Nm("Library"), Nm("LaunchServices")>>, <<Nm("MacOS")>>, CURRENT_DIRECTORY_PATH >>

App == NmE("A", "app")
AppPath == <<App>>
ContentsPath == <<App, Nm("Contents")>>
FwPath == ContentsPath \o <<Nm("Frameworks"), NmE("B", "framework")>>

\* entries of the working directory besides the bundle A.app
Around ==
    << E(Nm("tool"), XFile), E(NmE("notes", "txt"), PlainFile),
       E(Nm("plain"), Dir(<< E(Nm("x"), XFile) >>)),
       E(NmE("L", "app"), Link(AppPath)),
       E(Nm("lnk"), Link(<<Nm("tool")>>)),
       E(Nm("dangling"), Link(<<Nm("nowhere")>>)),
       E(NmE("V", "framework"), Dir(<< E(Nm("Versions"), PlainFile) >>)) >>

\* A.app/Contents/Frameworks/B.framework/Versions/{1,2,Current -> 2},
\* C.bundle nested in version 1
Tree1 ==
    Dir(<< E(App, Dir(<<
        E(Nm("Contents"), Dir(<<
            E(NmE("Info", "plist"), PlainFile),
            E(Nm("MacOS"), Dir(<< E(Nm("A"), XFile) >>)),
            E(Nm("Frameworks"), Dir(<<
                E(NmE("B", "framework"), Dir(<<
                    E(Nm("Versions"), Dir(<<
                        E(Nm("Current"), Link(FwPath \o <<Nm("Versions"), Nm("2")>>)),
                        E(Nm("1"), Dir(<<
                            E(Nm("PlugIns"), Dir(<<
                                E(NmE("C", "bundle"), Dir(<< E(Nm("c"), XFile) >>)) >>)) >>)),
                        E(Nm("2"), Dir(<<
                            E(Nm("Frameworks"), Dir(<< E(NmE("lib", "dylib"), XFile) >>)) >>))
                    >>)) >>)) >>)) >>)) >>)) >> \o Around)

\* Contents with Contents/Versions, executables and bundles spread over
\* several locations, a plain sub-directory in Frameworks, and Resources
Tree2 ==
    Dir(<< E(App, Dir(<<
        E(Nm("Contents"), Dir(<<
            E(Nm("Versions"), Dir(<<
                E(NmE("1", "0"), Dir(<< E(Nm("Helpers"), Dir(<< E(Nm("h"), XFile) >>)) >>)),
                E(Nm("README"), PlainFile) >>)),
            E(Nm("Resources"), Dir(<< E(NmE("R", "bundle"), Dir(<< >>)) >>)),
            E(NmE("Extra", "xpc"), Dir(<< >>)),
            E(Nm("run"), XFile),
            E(Nm("MacOS"), Dir(<<
                E(Nm("main"), XFile),
                E(NmE("Helper", "app"), Dir(<< >>)) >>)),
            E(Nm("PlugIns"), Dir(<< E(NmE("Q", "plugin"), Dir(<< >>)) >>)),
            E(Nm("Frameworks"), Dir(<<
                E(Nm("libx"), XFile),
                E(Nm("sub"), Dir(<<
                    E(NmE("P", "plugin"), Dir(<<
                        E(Nm("Contents"), Dir(<<
                            E(Nm("MacOS"), Dir(<< E(Nm("p"), XFile) >>)) >>)) >>)) >>)) >>))
        >>)) >>)) >> \o Around)

\* a symbolic link inside a named location that points back to Contents
Tree3 ==
    Dir(<< E(App, Dir(<<
        E(Nm("Contents"), Dir(<<
            E(Nm("Frameworks"), Dir(<< E(Nm("loop"), Link(ContentsPath)) >>)),
            E(Nm("MacOS"), Dir(<< E(Nm("A"), XFile) >>)) >>)) >>)) >> \o Around)

\* a regular file that carries the name of a named location
Tree4 ==
    Dir(<< E(App, Dir(<<
        E(Nm("Contents"), Dir(<<
            E(Nm("Frameworks"), Dir(<< E(NmE("lib", "dylib"), XFile) >>)),
            E(Nm("MacOS"), PlainFile) >>)) >>)) >> \o Around)

\* neither Contents nor Versions
Tree5 ==
    Dir(<< E(App, Dir(<<
        E(Nm("y"), XFile),
        E(Nm("MacOS"), Dir(<< E(Nm("x"), XFile) >>)),
        E(NmE("F", "framework"), Dir(<<
            E(Nm("Versions"), Dir(<<
                E(Nm("A"), Dir(<< E(Nm("F"), XFile) >>)) >>)) >>)) >>)) >> \o Around)

\* no symbolic link inside the bundle: Contents next to a root-level Versions
\* and MacOS, a framework with Versions next to a root-level Frameworks, plain
\* directories nested two deep in PlugIns, Library/QuickLook and Resources
Tree6 ==
    Dir(<< E(App, Dir(<<
        E(Nm("Versions"), Dir(<<
            E(Nm("A"), Dir(<< E(Nm("MacOS"), Dir(<< E(Nm("rv"), XFile) >>)) >>)) >>)),
        E(Nm("MacOS"), Dir(<< E(Nm("rootx"), XFile) >>)),
        E(Nm("Contents"), Dir(<<
            E(Nm("Resources"), Dir(<< E(Nm("helper"), XFile) >>)),
            E(Nm("MacOS"), Dir(<< E(Nm("A"), XFile) >>)),
            E(Nm("Library"), Dir(<<
                E(Nm("stray"), XFile),
                E(Nm("QuickLook"), Dir(<< E(NmE("G", "qlgenerator"), Dir(<< >>)) >>)) >>)),
            E(Nm("PlugIns"), Dir(<<
                E(Nm("d1"), Dir(<<
                    E(NmE("foo", "plugin"), Dir(<< >>)),
                    E(Nm("d2"), Dir(<<
                        E(NmE("deep", "plugin"), Dir(<< >>)),
                        E(Nm("dx"), XFile) >>)) >>)) >>)),
            E(Nm("Frameworks"), Dir(<<
                E(NmE("Early", "framework"), Dir(<<
                    E(Nm("Frameworks"), Dir(<< E(Nm("skipped"), XFile) >>)),
                    E(Nm("Versions"), Dir(<<
                        E(Nm("A"), Dir(<< E(Nm("E"), XFile) >>)) >>)) >>)) >>))
        >>)) >>)) >> \o Around)

Trees == <<Tree1, Tree2, Tree3, Tree4, Tree5, Tree6>>

RootChoices ==
    { AppPath, <<Nm("tool")>>, <<NmE("notes", "txt")>>, <<Nm("plain")>>,
      <<NmE("L", "app")>>, <<Nm("lnk")>>, <<Nm("dangling")>>, <<Nm("missing")>>,
      <<NmE("V", "framework")>> }

(***************************************************************************)
(* os.path                                                                 *)
(***************************************************************************)
Child(dir, name) ==
    IF \E i \in 1..Len(dir.kids) : dir.kids[i].name = name
    THEN dir.kids[CHOOSE i \in 1..Len(dir.kids) : dir.kids[i].name = name].node
    ELSE NoNode

\* the entry a path names; the last component is followed through a symbolic
\* link only when followLast; NoNode when the path cannot be resolved
RECURSIVE Walk(_, _, _, _, _)
Walk(top, cur, rest, followLast, budget) ==
    IF rest = <<>> THEN cur
    ELSE IF cur.kind # "dir" THEN NoNode
    ELSE IF <<Head(rest)>> = CURRENT_DIRECTORY_PATH THEN Walk(top, cur, Tail(rest), followLast, budget)
    ELSE CHOOSE found \in
            { IF c.kind = "link" /\ (Tail(rest) # <<>> \/ followLast)
              THEN IF budget = 0 THEN NoNode
                   ELSE Walk(top, top, c.target \o Tail(rest), followLast, budget - 1)
              ELSE Walk(top, c, Tail(rest), followLast, budget)
              : c \in {Child(cur, Head(rest))} } : TRUE

Stat(path) == Walk(Trees[tree], Trees[tree], path, TRUE, MaxSymlinks)
LStat(path) == Walk(Trees[tree], Trees[tree], path, FALSE, MaxSymlinks)

Exists(path) == Stat(path).kind # "none"
IsDir(path) == Stat(path).kind = "dir"
IsLink(path) == LStat(path).kind = "link"
\* os.access(path, os.X_OK): directories are searchable, files need the bit
AccessX(path) == Stat(path).kind \in {"xfile", "dir"}

ListDir(path) == [i \in 1..Len(Stat(path).kids) |-> Stat(path).kids[i].name]

\* os.path.basename(os.path.normpath(path)): normpath drops "." components
RECURSIVE Basename(_)
Basename(path) ==
    IF path = <<>> THEN CURRENT_DIRECTORY_PATH[1]
    ELSE IF <<path[Len(path)]>> = CURRENT_DIRECTORY_PATH
         THEN Basename(SubSeq(path, 1, Len(path) - 1))
         ELSE path[Len(path)]

\* os.path.splitext(filename)[1][1:]: the text after the last dot, provided
\* something other than dots precedes that dot
Extension(filename) ==
    IF Len(filename) >= 2 /\ \E i \in 1..(Len(filename) - 1) : filename[i] # ""
    THEN filename[Len(filename)]
    ELSE ""

(***************************************************************************)
(* Classifier                                                              *)
(***************************************************************************)
executable_candidate(path) == ~IsLink(path) /\ ~IsDir(path) /\ AccessX(path)

\* variant: any directory is taken for a bundle, extension or not
bundle_candidate_AnyDirectory(path) == ~IsLink(path) /\ IsDir(path)

bundle_candidate(path) == ~IsLink(path) /\ IsDir(path) /\ Extension(Basename(path)) # ""

(***************************************************************************)
(* Call frames                                                             *)
(***************************************************************************)
Frame(fn, path, at) ==
    [fn |-> fn, path |-> path, pc |-> at, li |-> 1, listed |-> FALSE, kids |-> <<>>,
     bundles |-> <<>>, executables |-> <<>>, todo |-> <<>>, from |-> Len(log)]

Call(fn, path) == [fn |-> fn, path |-> path]

EntryPc(fn) == IF fn = "files_in" THEN "scan" ELSE IF fn = "bundle" THEN "dispatch" ELSE "list"

Top == stack[Len(stack)]
SetTop(f) == [stack EXCEPT ![Len(stack)] = f]
Running == pc = "running" /\ stack # <<>>

\* sys.exit(code), or the interpreter ending on an uncaught exception
Exit(code, why) ==
    /\ pc' = "exited"
    /\ exitCode' = code
    /\ outcome' = why
    /\ stack' = <<>>

(***************************************************************************)
(* codesign_file: one Signer invocation                                    *)
(***************************************************************************)
\* variant: a failed invocation is reported but the traversal goes on
codesign_file_NoExit(path, ok, after) ==
    /\ log' = Append(log, path)
    /\ status' = Append(status, ok)
    /\ signed' = IF ok THEN signed \cup {path} ELSE signed
    /\ stack' = after
    /\ UNCHANGED <<pc, exitCode, outcome>>

codesign_file(path, ok, after) ==
    /\ log' = Append(log, path)
    /\ status' = Append(status, ok)
    /\ IF ok
       THEN /\ signed' = signed \cup {path}
            /\ stack' = after
            /\ UNCHANGED <<pc, exitCode, outcome>>
       ELSE /\ Exit(1, "signfail")
            /\ UNCHANGED signed

(***************************************************************************)
(* codesign_files_in                                                       *)
(***************************************************************************)
\* variant: a unit that already carries a signature is not signed again
SigningOrder_SkipSigned(bundles, executables) ==
    LET todoB == SelectSeq(bundles, LAMBDA b : b \notin signed)
        todoX == SelectSeq(executables, LAMBDA x : x \notin signed)
    IN  [i \in 1..Len(todoB) |-> Call("bundle", todoB[i])]
        \o [i \in 1..Len(todoX) |-> Call("file", todoX[i])]

\* variant: the two loops in the other order
SigningOrder_ExecutablesFirst(bundles, executables) ==
    [i \in 1..Len(executables) |-> Call("file", executables[i])]
    \o [i \in 1..Len(bundles) |-> Call("bundle", bundles[i])]

\* lines 80-83: the collected bundles, then the collected executables
SigningOrder(bundles, executables) ==
    [i \in 1..Len(bundles) |-> Call("bundle", bundles[i])]
    \o [i \in 1..Len(executables) |-> Call("file", executables[i])]

\* the frame once the location at li is finished
NextLocation(f) == [f EXCEPT !.li = @ + 1, !.listed = FALSE, !.kids = <<>>]

\* lines 64-67: the next named location; listing a path that is not a
\* directory raises NotADirectoryError, which nothing catches
ScanLocation ==
    /\ Running /\ Top.fn = "files_in" /\ Top.pc = "scan"
    /\ Top.li <= Len(VALID_SIGNING_PATHS) /\ ~Top.listed
    /\ LET signing_directory_filename == Top.path \o VALID_SIGNING_PATHS[Top.li] IN
       IF ~Exists(signing_directory_filename)
       THEN /\ stack' = SetTop(NextLocation(Top))
            /\ UNCHANGED <<pc, exitCode, outcome>>
       ELSE IF ~IsDir(signing_directory_filename)
       THEN Exit(1, "exception")
       ELSE /\ stack' = SetTop(IF ListDir(signing_directory_filename) = <<>>
                               THEN NextLocation(Top)
                               ELSE [Top EXCEPT !.listed = TRUE,
                                                !.kids = ListDir(signing_directory_filename)])
            /\ UNCHANGED <<pc, exitCode, outcome>>
    /\ UNCHANGED <<tree, root, log, status, signed, calls, run, prevLog>>

\* variant: the directory itself is searched deeply like the other locations
Recurses_Everywhere(signing_directory, filepath) == IsDir(filepath)

\* line 73: is this child, which is neither candidate, recursed into
Recurses(signing_directory, filepath) ==
    signing_directory # CURRENT_DIRECTORY_PATH /\ IsDir(filepath)

\* variant: a plain sub-directory is put on the bundle list and processed
\* with the collected bundles instead of being recursed into during the scan
ScanChild_CollectsDirectory ==
    /\ Running /\ Top.fn = "files_in" /\ Top.pc = "scan"
    /\ Top.listed /\ Top.kids # <<>>
    /\ LET signing_directory == VALID_SIGNING_PATHS[Top.li]
           filepath == Top.path \o signing_directory \o <<Head(Top.kids)>>
           rest == IF Tail(Top.kids) = <<>> THEN NextLocation(Top)
                   ELSE [Top EXCEPT !.kids = Tail(@)]
       IN  IF bundle_candidate(filepath) \/ Recurses(signing_directory, filepath)
           THEN stack' = SetTop([rest EXCEPT !.bundles = Append(@, filepath)])
           ELSE IF executable_candidate(filepath)
           THEN stack' = SetTop([rest EXCEPT !.executables = Append(@, filepath)])
           ELSE stack' = SetTop(rest)
    /\ UNCHANGED <<tree, root, pc, log, status, signed, exitCode, outcome, calls, run, prevLog>>

\* lines 68-76: one child of the listed location
ScanChild ==
    /\ Running /\ Top.fn = "files_in" /\ Top.pc = "scan"
    /\ Top.listed /\ Top.kids # <<>>
    /\ LET signing_directory == VALID_SIGNING_PATHS[Top.li]
           filepath == Top.path \o signing_directory \o <<Head(Top.kids)>>
           rest == IF Tail(Top.kids) = <<>> THEN NextLocation(Top)
                   ELSE [Top EXCEPT !.kids = Tail(@)]
       IN  IF bundle_candidate(filepath)
           THEN stack' = SetTop([rest EXCEPT !.bundles = Append(@, filepath)])
           ELSE IF executable_candidate(filepath)
           THEN stack' = SetTop([rest EXCEPT !.executables = Append(@, filepath)])
           ELSE IF Recurses(signing_directory, filepath)
           THEN stack' = Append(SetTop(rest), Frame("files_in", filepath, "scan"))
           ELSE stack' = SetTop(rest)
    /\ UNCHANGED <<tree, root, pc, log, status, signed, exitCode, outcome, calls, run, prevLog>>

\* line 78: every location scanned, the two loops of lines 80-83 follow
ScanDone ==
    /\ Running /\ Top.fn = "files_in" /\ Top.pc = "scan"
    /\ Top.li > Len(VALID_SIGNING_PATHS)
    /\ stack' = SetTop([Top EXCEPT !.pc = "run",
                                   !.todo = SigningOrder(Top.bundles, Top.executables)])
    /\ UNCHANGED <<tree, root, pc, log, status, signed, exitCode, outcome, calls, run, prevLog>>

(***************************************************************************)
(* codesign_versions                                                       *)
(***************************************************************************)
\* variant: only the symbolic links (the 'default' version) are scanned
codesign_versions_OnlyLinks(versions_path) ==
    LET names == ListDir(versions_path)
        keep == SelectSeq(names, LAMBDA filename : IsLink(versions_path \o <<filename>>))
    IN  [i \in 1..Len(keep) |-> Call("files_in", versions_path \o <<keep[i]>>)]

\* variant: every child is scanned, symbolic links included
codesign_versions_AllChildren(versions_path) ==
    LET names == ListDir(versions_path)
    IN  [i \in 1..Len(names) |-> Call("files_in", versions_path \o <<names[i]>>)]

\* lines 89-92: the scan of every child that is not a symbolic link
codesign_versions(versions_path) ==
    LET names == ListDir(versions_path)
        keep == SelectSeq(names, LAMBDA filename : ~IsLink(versions_path \o <<filename>>))
    IN  [i \in 1..Len(keep) |-> Call("files_in", versions_path \o <<keep[i]>>)]

VersionsList ==
    /\ Running /\ Top.fn = "versions" /\ Top.pc = "list"
    /\ IF ~IsDir(Top.path)
       THEN Exit(1, "exception")
       ELSE /\ stack' = SetTop([Top EXCEPT !.pc = "run", !.todo = codesign_versions(Top.path)])
            /\ UNCHANGED <<pc, exitCode, outcome>>
    /\ UNCHANGED <<tree, root, log, status, signed, calls, run, prevLog>>

(***************************************************************************)
(* codesign_bundle                                                         *)
(***************************************************************************)
\* variant: Contents, Versions and the bundle root are each processed when
\* present instead of exactly one of them
BundleBranch_AllThatExist(bundle_path) ==
    LET contents_path == bundle_path \o <<Nm("Contents")>>
        versions_path == bundle_path \o <<Nm("Versions")>>
        inner_versions_path == contents_path \o <<Nm("Versions")>>
    IN  (IF Exists(contents_path)
         THEN (IF Exists(inner_versions_path)
               THEN <<Call("versions", inner_versions_path)>> ELSE <<>>)
              \o <<Call("files_in", contents_path)>>
         ELSE <<>>)
        \o (IF Exists(versions_path) THEN <<Call("versions", versions_path)>> ELSE <<>>)
        \o <<Call("files_in", bundle_path)>>

\* variant: Contents is scanned before Contents/Versions
BundleBranch_ContentsFirst(bundle_path) ==
    LET contents_path == bundle_path \o <<Nm("Contents")>>
        versions_path == bundle_path \o <<Nm("Versions")>>
        inner_versions_path == contents_path \o <<Nm("Versions")>>
    IN  IF Exists(contents_path)
        THEN <<Call("files_in", contents_path)>>
             \o (IF Exists(inner_versions_path)
                  THEN <<Call("versions", inner_versions_path)>> ELSE <<>>)
        ELSE IF Exists(versions_path)
        THEN <<Call("versions", versions_path)>>
        ELSE <<Call("files_in", bundle_path)>>

\* the branch of lines 98-115
BundleBranch(bundle_path) ==
    LET contents_path == bundle_path \o <<Nm("Contents")>>
        versions_path == bundle_path \o <<Nm("Versions")>>
        inner_versions_path == contents_path \o <<Nm("Versions")>>
    IN  IF Exists(contents_path)
        THEN (IF Exists(inner_versions_path)
              THEN <<Call("versions", inner_versions_path)>> ELSE <<>>)
             \o <<Call("files_in", contents_path)>>
        ELSE IF Exists(versions_path)
        THEN <<Call("versions", versions_path)>>
        ELSE <<Call("files_in", bundle_path)>>

\* variant: the bundle is signed before its content
codesign_bundle_SelfFirst(bundle_path) ==
    <<Call("file", bundle_path)>> \o BundleBranch(bundle_path)

\* variant: the bundle is signed before and after its content
codesign_bundle_SignTwice(bundle_path) ==
    <<Call("file", bundle_path)>> \o BundleBranch(bundle_path) \o <<Call("file", bundle_path)>>

\* lines 95-118: the calls codesign_bundle makes, in order
codesign_bundle(bundle_path) ==
    BundleBranch(bundle_path) \o <<Call("file", bundle_path)>>

BundleDispatch ==
    /\ Running /\ Top.fn = "bundle" /\ Top.pc = "dispatch"
    /\ stack' = SetTop([Top EXCEPT !.pc = "run", !.todo = codesign_bundle(Top.path)])
    /\ UNCHANGED <<tree, root, pc, log, status, signed, exitCode, outcome, calls, run, prevLog>>

(***************************************************************************)
(* Calls and returns                                                       *)
(***************************************************************************)
\* the next call of the running function is a call of a traversal function
CallFunction ==
    /\ Running /\ Top.pc = "run" /\ Top.todo # <<>>
    /\ Head(Top.todo).fn # "file"
    /\ stack' = Append(SetTop([Top EXCEPT !.todo = Tail(@)]),
                       Frame(Head(Top.todo).fn, Head(Top.todo).path, EntryPc(Head(Top.todo).fn)))
    /\ UNCHANGED <<tree, root, pc, log, status, signed, exitCode, outcome, calls, run, prevLog>>

\* the next call of the running function is codesign_file
CallSigner ==
    /\ Running /\ Top.pc = "run" /\ Top.todo # <<>>
    /\ Head(Top.todo).fn = "file"
    /\ \E ok \in BOOLEAN :
          codesign_file(Head(Top.todo).path, ok, SetTop([Top EXCEPT !.todo = Tail(@)]))
    /\ UNCHANGED <<tree, root, calls, run, prevLog>>

Finished(f) ==
    [fn |-> f.fn, path |-> f.path, from |-> f.from, to |-> Len(log),
     bundles |-> f.bundles, executables |-> f.executables]

\* a traversal function returns to its caller
Return ==
    /\ Running /\ Top.pc = "run" /\ Top.todo = <<>>
    /\ Top.fn # "main"
    /\ stack' = SubSeq(stack, 1, Len(stack) - 1)
    /\ calls' = Append(calls, Finished(Top))
    /\ UNCHANGED <<tree, root, pc, log, status, signed, exitCode, outcome, run, prevLog>>

(***************************************************************************)
(* __main__                                                                *)
(***************************************************************************)
\* lines 132-142
Main ==
    /\ pc = "start"
    /\ IF ~Exists(root)
       THEN Exit(1, "notfound")
       ELSE IF executable_candidate(root)
       THEN /\ stack' = <<[Frame("main", root, "run") EXCEPT !.todo = <<Call("file", root)>>]>>
            /\ pc' = "running"
            /\ UNCHANGED <<exitCode, outcome>>
       ELSE IF bundle_candidate(root)
       THEN /\ stack' = <<[Frame("main", root, "run") EXCEPT !.todo = <<Call("bundle", root)>>]>>
            /\ pc' = "running"
            /\ UNCHANGED <<exitCode, outcome>>
       ELSE Exit(1, "unsuitable")
    /\ UNCHANGED <<tree, root, log, status, signed, calls, run, prevLog>>

\* the script runs off its end
MainEnd ==
    /\ Running /\ Top.fn = "main" /\ Top.pc = "run" /\ Top.todo = <<>>
    /\ Exit(0, "ok")
    /\ UNCHANGED <<tree, root, log, status, signed, calls, run, prevLog>>

\* the tool is run again on the same tree with the same identity
Rerun ==
    /\ pc = "exited" /\ exitCode = 0 /\ run < MaxRuns
    /\ pc' = "start"
    /\ run' = run + 1
    /\ prevLog' = log
    /\ log' = <<>>
    /\ status' = <<>>
    /\ calls' = <<>>
    /\ exitCode' = -1
    /\ outcome' = "none"
    /\ UNCHANGED <<tree, root, stack, signed>>

Init ==
    /\ tree \in 1..Len(Trees)
    /\ root \in RootChoices
    /\ pc = "start"
    /\ stack = <<>>
    /\ log = <<>>
    /\ status = <<>>
    /\ signed = {}
    /\ exitCode = -1
    /\ outcome = "none"
    /\ calls = <<>>
    /\ run = 1
    /\ prevLog = <<>>

Next ==
    \/ Main
    \/ ScanLocation
    \/ ScanChild
    \/ ScanDone
    \/ VersionsList
    \/ BundleDispatch
    \/ CallFunction
    \/ CallSigner
    \/ Return
    \/ MainEnd
    \/ Rerun

Spec == Init /\ [][Next]_vars

FairSpec == Spec /\ WF_vars(Next)

TypeOK ==
    /\ pc \in {"start", "running", "exited"}
    /\ exitCode \in {-1, 0, 1}
    /\ outcome \in {"none", "ok", "notfound", "unsuitable", "signfail", "exception"}
    /\ run \in 1..MaxRuns

(***************************************************************************)
(* Properties                                                              *)
(***************************************************************************)
Completed == pc = "exited" /\ outcome = "ok"

\* a is a proper prefix of b: the entry at b lies inside the directory at a
Inside(a, b) == Len(a) < Len(b) /\ SubSeq(b, 1, Len(a)) = a

\* the bundle candidates that sit directly in a named location of directory d
LevelBundles(d) ==
    UNION { { d \o VALID_SIGNING_PATHS[l] \o <<ListDir(d \o VALID_SIGNING_PATHS[l])[k]>> :
                k \in 1..Len(ListDir(d \o VALID_SIGNING_PATHS[l])) }
            : l \in { m \in 1..Len(VALID_SIGNING_PATHS) : IsDir(d \o VALID_SIGNING_PATHS[m]) } }

LevelBundleCandidates(d) == { p \in LevelBundles(d) : bundle_candidate(p) }

\* the version sub-directories of a Versions directory v
VersionDirs(v) ==
    { v \o <<ListDir(v)[k]>> : k \in { j \in 1..Len(ListDir(v)) : ~IsLink(v \o <<ListDir(v)[j]>>) } }

VersionedBundles(v) == UNION { LevelBundleCandidates(d) : d \in VersionDirs(v) }

\* the bundle candidates nested in bundle b, directly or through a version
\* sub-directory, following the layout of b
NestedBundles(b) ==
    LET contents == b \o <<Nm("Contents")>>
        versions == b \o <<Nm("Versions")>>
    IN  IF Exists(contents)
        THEN LevelBundleCandidates(contents) \cup VersionedBundles(contents \o <<Nm("Versions")>>)
        ELSE IF Exists(versions) THEN VersionedBundles(versions)
        ELSE LevelBundleCandidates(b)

C2_InnerStrictlyEarlier ==
    \A i, j \in 1..Len(log) :
        (bundle_candidate(log[i]) /\ bundle_candidate(log[j]) /\ Inside(log[i], log[j]))
            => j < i

\* a completed run with three bundles nested in one another, the innermost
\* reached through a version directory
C2_Witness ==
    /\ Completed
    /\ \E i, j, k \in 1..Len(log) :
          /\ bundle_candidate(log[i]) /\ bundle_candidate(log[j]) /\ bundle_candidate(log[k])
          /\ Inside(log[i], log[j]) /\ Inside(log[j], log[k])
          /\ \E m \in 1..Len(log[k]) : log[k][m] = Nm("Versions")

BundleCalls == { c \in 1..Len(calls) : calls[c].fn = "bundle" }

\* C3: a call of codesign_bundle(B) that returns has invoked the Signer on B
\* exactly once, as the last invocation of the call, and nothing inside B is
\* passed to the Signer after it.
C3_SelfSignedOnceAndLast ==
    \A c \in BundleCalls :
        /\ calls[c].from < calls[c].to
        /\ log[calls[c].to] = calls[c].path
        /\ Cardinality({ k \in (calls[c].from + 1)..calls[c].to : log[k] = calls[c].path }) = 1
        /\ \A k \in (calls[c].to + 1)..Len(log) : ~Inside(calls[c].path, log[k])

BranchOf(b) ==
    IF Exists(b \o <<Nm("Contents")>>) THEN "contents"
    ELSE IF Exists(b \o <<Nm("Versions")>>) THEN "versions" ELSE "neither"

\* a completed run in which calls of codesign_bundle returned from each of the
\* three branches
C3_Witness ==
    /\ Completed
    /\ \A br \in {"contents", "versions", "neither"} :
          \E c \in BundleCalls : BranchOf(calls[c].path) = br

\* C4: a failed Signer invocation is the last invocation of the run, the
\* process has exited with code 1, and what was signed before stays signed.
C4_FailureIsFatal ==
    \A i \in 1..Len(log) :
        ~status[i] =>
            /\ i = Len(log)
            /\ pc = "exited" /\ exitCode = 1
            /\ \A j \in 1..(i - 1) : status[j] /\ log[j] \in signed

\* a Signer failure on a nested unit while siblings and ancestors were still
\* to be signed
C4_Witness ==
    /\ Len(log) >= 2
    /\ ~status[Len(log)]
    /\ Len(log[Len(log)]) > Len(root)
    /\ pc = "exited"

VersionsCalls == { c \in 1..Len(calls) : calls[c].fn = "versions" }

ScansOf(d) == { c \in 1..Len(calls) : calls[c].fn = "files_in" /\ calls[c].path = d }

\* the bundle and executable candidates directly in a named location of d
LevelUnits(d) == { p \in LevelBundles(d) : bundle_candidate(p) \/ executable_candidate(p) }

Invocations(p) == { k \in 1..Len(log) : log[k] = p }

\* C5: when codesign_versions has returned, every child of the Versions
\* directory that is not a symbolic link was scanned exactly once and each
\* signable unit in it passed to the Signer exactly once; a child that is a
\* symbolic link was not scanned and no path through it reached the Signer.
C5_VersionsSkipSymlinks ==
    \A c \in VersionsCalls :
        \A k \in 1..Len(ListDir(calls[c].path)) :
            LET child == calls[c].path \o <<ListDir(calls[c].path)[k]>> IN
            IF IsLink(child)
            THEN /\ ScansOf(child) = {}
                 /\ \A m \in 1..Len(log) : ~Inside(child, log[m])
            ELSE /\ Cardinality(ScansOf(child)) = 1
                 /\ \A u \in LevelUnits(child) : Cardinality(Invocations(u)) = 1

\* codesign_versions returned for a Versions directory holding two version
\* directories with signable content and a symbolic link to one of them
C5_Witness ==
    \E c \in VersionsCalls :
        /\ \E k \in 1..Len(ListDir(calls[c].path)) :
              /\ IsLink(calls[c].path \o <<ListDir(calls[c].path)[k]>>)
              /\ IsDir(calls[c].path \o <<ListDir(calls[c].path)[k]>>)
        /\ Cardinality({ d \in VersionDirs(calls[c].path) : LevelUnits(d) # {} }) >= 2

Suitable(path) == executable_candidate(path) \/ bundle_candidate(path)

\* C6: the exit code is 0 exactly when the root exists, is an executable or
\* bundle candidate and every Signer invocation succeeded; a missing or
\* unsuitable root gives exit code 1 without any Signer invocation.
C6_ExitCode ==
    pc = "exited" =>
        /\ exitCode = 0 <=>
              (Exists(root) /\ Suitable(root) /\ \A i \in 1..Len(status) : status[i])
        /\ (~Exists(root) \/ ~Suitable(root)) => (exitCode = 1 /\ log = <<>>)

\* the run has ended in one of the two ways: everything signed with the root
\* last and exit code 0, or aborted by a Signer failure
EndedAsDesigned ==
    /\ pc = "exited"
    /\ \/ /\ outcome = "ok" /\ exitCode = 0
          /\ log # <<>> /\ log[Len(log)] = root
          /\ \A i \in 1..Len(status) : status[i]
       \/ /\ outcome = "signfail" /\ exitCode = 1
          /\ log # <<>> /\ ~status[Len(log)]

\* C7: a traversal that has started always ends, either completed or aborted
\* at the first Signer failure.
C7_AlwaysEndsAsDesigned == (pc = "running") ~> EndedAsDesigned

\* every run reaches the end of the process, whatever the tree
Terminates == (pc = "running") ~> (pc = "exited")

Range(q) == { q[i] : i \in 1..Len(q) }

\* the scans of codesign_files_in, returned or still running
Scans ==
    { [path |-> calls[c].path, from |-> calls[c].from, to |-> calls[c].to,
       bundles |-> calls[c].bundles, executables |-> calls[c].executables, done |-> TRUE] :
         c \in { k \in 1..Len(calls) : calls[k].fn = "files_in" } }
    \cup
    { [path |-> stack[f].path, from |-> stack[f].from, to |-> Len(log),
       bundles |-> stack[f].bundles, executables |-> stack[f].executables, done |-> FALSE] :
         f \in { k \in 1..Len(stack) : stack[k].fn = "files_in" } }

\* C9: within one call of codesign_files_in, when the Signer is invoked on a
\* collected executable, codesign_bundle has returned for every collected
\* bundle, whatever locations they were found in.
C9_BundlesBeforeExecutables ==
    \A r \in Scans :
        \A k \in (r.from + 1)..r.to :
            log[k] \in Range(r.executables) =>
                \A b \in Range(r.bundles) :
                    \E c \in BundleCalls :
                        /\ calls[c].path = b
                        /\ calls[c].from >= r.from
                        /\ calls[c].to < k
                        /\ log[calls[c].to] = b

NestedContentLocations ==
    { <<Nm("Frameworks")>>, <<Nm("PlugIns")>>, <<Nm("XPCServices")>>, <<Nm("Helpers")>>,
      <<Nm("Library"), Nm("QuickLook")>>, <<Nm("Library"), Nm("Automator")>>,
      <<Nm("Library"), Nm("Spotlight")>>, <<Nm("Library"), Nm("LoginItems")>>,
      <<Nm("Library"), Nm("LaunchServices")>> }

\* the location of directory d in which unit u was found
LocationOf(d, u) == SubSeq(u, Len(d) + 1, Len(u) - 1)

\* 1 for the nested-content locations, 2 for MacOS, 3 for the directory itself
Rank(d, u) ==
    IF LocationOf(d, u) \in NestedContentLocations THEN 1
    ELSE IF LocationOf(d, u) = <<Nm("MacOS")>> THEN 2 ELSE 3

\* a returned scan whose lists hold a bundle found in a later location than
\* one of its executables
C9_Witness ==
    \E r \in Scans :
        /\ r.done
        /\ \E b \in Range(r.bundles), x \in Range(r.executables) :
              Rank(r.path, x) < Rank(r.path, b)

PositionIn(r, u) == CHOOSE k \in (r.from + 1)..r.to : log[k] = u

\* C10 as claimed: within one call of codesign_files_in, a unit found in a
\* nested-content location is signed before any unit found in MacOS, and the
\* units found in the directory itself are signed after all others.
C10_LocationOrderAllUnits ==
    \A r \in Scans :
        r.done =>
            \A u, v \in Range(r.bundles) \cup Range(r.executables) :
                Rank(r.path, u) < Rank(r.path, v) => PositionIn(r, u) < PositionIn(r, v)

\* C10 amended: the order of the locations holds among the collected bundles
\* and among the collected executables, and every collected bundle is signed
\* before every collected executable.
C10_LocationOrderPerKind ==
    \A r \in Scans :
        r.done =>
            /\ \A u, v \in Range(r.bundles) :
                  Rank(r.path, u) < Rank(r.path, v) => PositionIn(r, u) < PositionIn(r, v)
            /\ \A u, v \in Range(r.executables) :
                  Rank(r.path, u) < Rank(r.path, v) => PositionIn(r, u) < PositionIn(r, v)
            /\ \A u \in Range(r.bundles), v \in Range(r.executables) :
                  PositionIn(r, u) < PositionIn(r, v)

\* a returned scan that collected bundles in all three kinds of location and
\* executables in all three
C10_Witness ==
    \E r \in Scans :
        /\ r.done
        /\ \A k \in 1..3 : \E u \in Range(r.bundles) : Rank(r.path, u) = k
        /\ \A k \in 1..3 : \E u \in Range(r.executables) : Rank(r.path, u) = k

\* a path without its "." components
Normal(path) == SelectSeq(path, LAMBDA n : <<n>> # CURRENT_DIRECTORY_PATH)

NormalLog == { Normal(log[i]) : i \in 1..Len(log) }

\* a directory that is neither a symbolic link nor a bundle candidate
PlainDirectory(path) == IsDir(path) /\ ~IsLink(path) /\ Extension(Basename(path)) = ""

Children(d) == { d \o <<ListDir(d)[k]>> : k \in 1..Len(ListDir(d)) }

\* the bundle and executable candidates at the end of a chain of one or more
\* plain directories below directory d
RECURSIVE ChainEnds(_)
ChainEnds(d) ==
    UNION { { u \in Children(c) : bundle_candidate(u) \/ executable_candidate(u) }
            \cup ChainEnds(c)
            : c \in { k \in Children(d) : PlainDirectory(k) } }

\* the named locations of a scanned directory other than the directory itself
DeepLocations(d) ==
    { d \o VALID_SIGNING_PATHS[l] :
        l \in { m \in 1..Len(VALID_SIGNING_PATHS) :
                  /\ VALID_SIGNING_PATHS[m] # CURRENT_DIRECTORY_PATH
                  /\ IsDir(d \o VALID_SIGNING_PATHS[m]) } }

\* C11: in a run that completes, every bundle or executable candidate at the
\* end of a chain of plain directories, of any depth, below a named location
\* of a scanned directory has been passed to the Signer.
C11_DeepChainsSigned ==
    Completed =>
        \A r \in Scans :
            \A loc \in DeepLocations(r.path) :
                \A u \in ChainEnds(loc) : Normal(u) \in NormalLog

\* the returned calls of function fn on path p
CallsOf(fn, p) == { c \in 1..Len(calls) : calls[c].fn = fn /\ calls[c].path = p }

\* the Signer was invoked on a path inside directory d
SignedInside(d) == \E q \in NormalLog : Inside(Normal(d), q)

\* C12: a returned codesign_bundle(B) has taken exactly one branch.  With
\* Contents: Contents is scanned once, the root-level Versions and the bundle
\* root are not.  Without Contents, with Versions: only the version
\* sub-directories are scanned.  With neither: the bundle root is scanned
\* once.  In each case B is the last path signed by the call.
C12_ExactlyOneBranch ==
    \A c \in BundleCalls :
        LET b == calls[c].path
            contents == b \o <<Nm("Contents")>>
            versions == b \o <<Nm("Versions")>>
        IN  /\ log[calls[c].to] = b
            /\ CASE BranchOf(b) = "contents" ->
                      /\ Cardinality(CallsOf("files_in", contents)) = 1
                      /\ CallsOf("versions", versions) = {}
                      /\ CallsOf("files_in", b) = {}
                      /\ ~SignedInside(versions)
                      /\ \A q \in NormalLog :
                            Inside(Normal(b), q) => Inside(Normal(contents), q)
                 [] BranchOf(b) = "versions" ->
                      /\ Cardinality(CallsOf("versions", versions)) = 1
                      /\ CallsOf("files_in", b) = {}
                      /\ CallsOf("files_in", contents) = {}
                      /\ \A q \in NormalLog :
                            Inside(Normal(b), q) => Inside(Normal(versions), q)
                 [] OTHER ->
                      /\ Cardinality(CallsOf("files_in", b)) = 1
                      /\ CallsOf("versions", versions) = {}

\* codesign_bundle returned for a bundle with Contents that also has a
\* root-level Versions and a root-level MacOS with signable content, for a
\* bundle with Versions that also has a root-level Frameworks with signable
\* content, and for a bundle with neither
C12_Witness ==
    /\ \E c \in BundleCalls :
          /\ BranchOf(calls[c].path) = "contents"
          /\ VersionDirs(calls[c].path \o <<Nm("Versions")>>) # {}
          /\ LevelUnits(calls[c].path) # {}
    /\ \E c \in BundleCalls :
          /\ BranchOf(calls[c].path) = "versions"
          /\ LevelUnits(calls[c].path) # {}
    /\ \E c \in BundleCalls : BranchOf(calls[c].path) = "neither"

\* the positions in the Signer log of the invocations made during call c
During(c) == (calls[c].from + 1)..calls[c].to

\* C13: for a bundle with Contents and Contents/Versions, codesign_versions
\* has returned before the scan of Contents starts, so every unit reached
\* through Contents/Versions/<v> is signed before every unit the scan of
\* Contents signs; the scan signs nothing under Contents/Versions, and no
\* path under Contents/Versions is passed to the Signer twice.
C13_InnerVersionsFirst ==
    \A c \in BundleCalls :
        LET contents == calls[c].path \o <<Nm("Contents")>>
            inner == contents \o <<Nm("Versions")>>
        IN  (Exists(contents) /\ Exists(inner)) =>
                /\ Cardinality(CallsOf("versions", inner)) = 1
                /\ Cardinality(CallsOf("files_in", contents)) = 1
                /\ \A v \in CallsOf("versions", inner), f \in CallsOf("files_in", contents) :
                      /\ calls[v].to <= calls[f].from
                      /\ \A i \in During(v), j \in During(f) : i < j
                      /\ \A j \in During(f) : ~Inside(Normal(inner), Normal(log[j]))
                /\ \A i, j \in 1..Len(log) :
                      (Inside(Normal(inner), Normal(log[i])) /\ Normal(log[i]) = Normal(log[j]))
                          => i = j

\* codesign_bundle returned for a bundle whose Contents/Versions and whose
\* Contents both gave units to the Signer
C13_Witness ==
    \E c \in BundleCalls :
        LET contents == calls[c].path \o <<Nm("Contents")>>
            inner == contents \o <<Nm("Versions")>>
        IN  /\ Exists(inner)
            /\ \E v \in CallsOf("versions", inner) : During(v) # {}
            /\ \E f \in CallsOf("files_in", contents) :
                  /\ During(f) # {}
                  /\ calls[f].bundles # <<>> /\ calls[f].executables # <<>>

\* the returned calls of codesign_files_in that scan r made by recursing into
\* a plain sub-directory of one of its named locations
FallbackCalls(r) ==
    { c \in 1..Len(calls) :
        /\ calls[c].fn = "files_in"
        /\ calls[c].from >= r.from
        /\ ~bundle_candidate(calls[c].path)
        /\ Len(calls[c].path) > Len(r.path) + 1
        /\ SubSeq(calls[c].path, 1, Len(r.path)) = r.path
        /\ LocationOf(r.path, calls[c].path) \in NestedContentLocations \cup {<<Nm("MacOS")>>} }

\* C14: a call made by recursing into a plain sub-directory has returned, with
\* all its Signer invocations made, before the Signer is invoked on any bundle
\* or executable of the calling level's own lists.
C14_FallbackSignedDuringScan ==
    \A r \in Scans :
        \A n \in FallbackCalls(r) :
            \A k \in (r.from + 1)..r.to :
                log[k] \in Range(r.bundles) \cup Range(r.executables) => calls[n].to < k

\* the place of a location in the order of the scan
Place(loc) == CHOOSE l \in 1..Len(VALID_SIGNING_PATHS) : VALID_SIGNING_PATHS[l] = loc

\* a returned scan with a recursed sub-directory that gave units to the
\* Signer, a collected bundle from a location scanned before that
\* sub-directory's location, and a collected executable
C14_Witness ==
    \E r \in Scans :
        /\ r.done
        /\ r.executables # <<>>
        /\ \E n \in FallbackCalls(r) :
              /\ During(n) # {}
              /\ \E b \in Range(r.bundles) :
                    Place(LocationOf(r.path, b)) < Place(LocationOf(r.path, calls[n].path))

\* the named locations other than the directory itself
NamedLocations == NestedContentLocations \cup {<<Nm("MacOS")>>}

\* the children of scanned directory d that are plain directories and not
\* themselves a named location
PlainChildren(d) == { c \in Children(d) : PlainDirectory(c) /\ <<c[Len(c)]>> \notin NamedLocations }

\* C15 as claimed: for a child of a scanned directory that is a plain
\* directory and not itself a named location, nothing under that child is
\* ever passed to the Signer.
C15_NothingUnderPlainChildren ==
    \A r \in Scans : \A c \in PlainChildren(r.path) : ~SignedInside(c)

\* C15 amended: for a child of a scanned directory that is a plain directory
\* and is neither a named location, nor Library (the parent of named
\* locations), nor Versions (processed by codesign_versions), no function is
\* called on that child and the Signer is never invoked with a path that goes
\* through it.
C15_OtherPlainChildrenNotTraversed ==
    \A r \in Scans :
        \A c \in PlainChildren(r.path) :
            c[Len(c)] \notin {Nm("Library"), Nm("Versions")} =>
                /\ ~SignedInside(c)
                /\ \A k \in 1..Len(calls) : Normal(calls[k].path) # Normal(c)
                /\ \A k \in 1..Len(stack) : Normal(stack[k].path) # Normal(c)

\* a completed run that scanned a directory with a plain child, such as
\* Resources, holding a bundle or executable candidate
C15_Witness ==
    /\ Completed
    /\ \E r \in Scans :
          \E c \in PlainChildren(r.path) :
              /\ c[Len(c)] \notin {Nm("Library"), Nm("Versions")}
              /\ \E u \in Children(c) : bundle_candidate(u) \/ executable_candidate(u)

\* a symbolic link is found in or below the entry
RECURSIVE HasLink(_)
HasLink(node) ==
    \/ node.kind = "link"
    \/ \E k \in 1..Len(node.kids) : HasLink(node.kids[k].node)

\* C16: when the tree under the root holds no symbolic link, no entry is
\* passed to the Signer twice in one run.
C16_NoEntrySignedTwice ==
    ~HasLink(LStat(root)) =>
        \A i, j \in 1..Len(log) : Normal(log[i]) = Normal(log[j]) => i = j

\* a completed run on a tree without symbolic links that went through
\* Contents, a Versions directory, named locations and a recursed plain
\* sub-directory
C16_Witness ==
    /\ Completed
    /\ ~HasLink(LStat(root))
    /\ \E c \in VersionsCalls : During(c) # {}
    /\ \E r \in Scans : \E n \in FallbackCalls(r) : During(n) # {}
    /\ \E c \in BundleCalls : BranchOf(calls[c].path) = "contents"
    /\ Len(log) >= 6

\* the Versions directories codesign_versions was or is being called on
VersionsPaths ==
    { calls[c].path : c \in VersionsCalls }
    \cup { stack[f].path : f \in { k \in 1..Len(stack) : stack[k].fn = "versions" } }

\* the entry is a regular file with the executable bit, not a symbolic link
SignedAsExecutable(path) == LStat(path).kind = "xfile"

\* the entry is a directory, not a symbolic link, whose name has an extension
SignedAsBundle(path) == LStat(path).kind = "dir" /\ Extension(Basename(path)) # ""

\* C17: every path passed to the Signer is either an executable file or a
\* directory with a non-empty extension, never both and never a symbolic
\* link; the version directories of a processed Versions directory and the
\* named-location directories of a scanned directory are never passed to it.
C17_SignedPathsAreCandidates ==
    \A i \in 1..Len(log) :
        /\ LStat(log[i]).kind # "link"
        /\ SignedAsExecutable(log[i]) # SignedAsBundle(log[i])
        /\ \A v \in VersionsPaths : Normal(log[i]) \notin { Normal(d) : d \in Children(v) }
        /\ \A r \in Scans : \A loc \in NamedLocations : Normal(log[i]) # Normal(r.path \o loc)

\* a completed run that signed an executable and a bundle, went through a
\* Versions directory with a version in it and scanned an existing named
\* location, and met a symbolic link among the versions
C17_Witness ==
    /\ Completed
    /\ \E i, j \in 1..Len(log) : SignedAsExecutable(log[i]) /\ SignedAsBundle(log[j])
    /\ \E v \in VersionsPaths : VersionDirs(v) # {}
    /\ \E r \in Scans : \E loc \in NamedLocations : Children(r.path \o loc) # {}
    /\ \E v \in VersionsPaths : \E c \in Children(v) : IsLink(c)

====
